---------------------------- MODULE Spec2Model ----------------------------
(***************************************************************************)
(* Sprint status dashboard server                                          *)
(* (sprint-dashboard/skills/show-sprint-status/server.py).                 *)
(*                                                                         *)
(* Two parts share this module:                                            *)
(*  - the status resolver (normalize_status, get_status_from_story_file,   *)
(*    parse_sprint_status), modelled as operators over strings that are    *)
(*    sequences of one-character strings, so that lower-casing, trimming,  *)
(*    prefix tests, splitting and digit extraction are computed;           *)
(*  - the asyncio server (websocket_handler, shutdown_timer,               *)
(*    file_watcher), modelled as a state machine whose steps are the       *)
(*    stretches of code between two awaits.                                *)
(***************************************************************************)
EXTENDS Integers, Sequences, FiniteSets, TLC

(***************************************************************************)
(* Strings                                                                 *)
(***************************************************************************)

\* Python's None: a value no string equals (a string is a sequence of
\* one-character strings).
None == <<"None">>

\* str.lower(), on the letters the inputs use.
ToLower ==
    [c \in {"A","B","C","D","E","F","G","I","N","O","P","R","S","T","U","V","W"} |->
        CASE c = "A" -> "a" [] c = "B" -> "b" [] c = "C" -> "c" [] c = "D" -> "d"
          [] c = "E" -> "e" [] c = "F" -> "f" [] c = "G" -> "g" [] c = "I" -> "i"
          [] c = "N" -> "n" [] c = "O" -> "o" [] c = "P" -> "p" [] c = "R" -> "r"
          [] c = "S" -> "s" [] c = "T" -> "t" [] c = "U" -> "u" [] c = "V" -> "v"
          [] c = "W" -> "w"]

LowerChar(c) == IF c \in DOMAIN ToLower THEN ToLower[c] ELSE c

Lower(s) == [i \in 1..Len(s) |-> LowerChar(s[i])]

\* The characters \s matches and str.strip() removes, among those used.
IsSpace(c) == c \in {" ", "\t"}

IsDigit(c) == c \in {"0","1","2","3","4","5","6","7","8","9"}

\* str.isalpha() on one character, among those used.
IsAlpha(c) ==
    \/ c \in DOMAIN ToLower
    \/ c \in {"a","b","c","d","e","f","g","h","i","j","k","l","m","n","o","p",
              "q","r","s","t","u","v","w","x","y","z"}

DigitVal(c) ==
    CASE c = "0" -> 0 [] c = "1" -> 1 [] c = "2" -> 2 [] c = "3" -> 3
      [] c = "4" -> 4 [] c = "5" -> 5 [] c = "6" -> 6 [] c = "7" -> 7
      [] c = "8" -> 8 [] c = "9" -> 9

RECURSIVE LStrip(_)
LStrip(s) ==
    IF s # << >> /\ IsSpace(Head(s)) THEN LStrip(Tail(s)) ELSE s

RECURSIVE RStrip(_)
RStrip(s) ==
    IF s # << >> /\ IsSpace(s[Len(s)]) THEN RStrip(SubSeq(s, 1, Len(s) - 1)) ELSE s

\* str.strip()
Strip(s) == RStrip(LStrip(s))

\* str.startswith(p)
StartsWith(s, p) == Len(s) >= Len(p) /\ SubSeq(s, 1, Len(p)) = p

\* `sub in s`
Contains(s, sub) ==
    \E i \in 1..(Len(s) - Len(sub) + 1) : SubSeq(s, i, i + Len(sub) - 1) = sub

\* str.replace(a, b) for single characters.
ReplaceChar(s, a, b) == [i \in 1..Len(s) |-> IF s[i] = a THEN b ELSE s[i]]

\* str.split(sep) for a one-character separator: empty pieces are kept.
RECURSIVE SplitOn(_, _)
SplitOn(s, sep) ==
    IF \E i \in 1..Len(s) : s[i] = sep
    THEN LET i == CHOOSE j \in 1..Len(s) :
                      s[j] = sep /\ \A k \in 1..(j - 1) : s[k] # sep
         IN  <<SubSeq(s, 1, i - 1)>> \o SplitOn(SubSeq(s, i + 1, Len(s)), sep)
    ELSE <<s>>

\* str.split()[0] of a non-empty string without leading whitespace.
FirstWord(s) ==
    IF \E i \in 1..Len(s) : IsSpace(s[i])
    THEN LET i == CHOOSE j \in 1..Len(s) :
                      IsSpace(s[j]) /\ \A k \in 1..(j - 1) : ~IsSpace(s[k])
         IN  SubSeq(s, 1, i - 1)
    ELSE s

\* The characters str.isdigit() accepts, among those used: the decimal digits
\* and the superscript two, which is a digit for str.isdigit() but is not
\* matched by \d and is not accepted by int().
IsDigitChar(c) == IsDigit(c) \/ c = "²"

\* str.isdigit(): non-empty and all digits.
IsDigits(s) == s # << >> /\ \A i \in 1..Len(s) : IsDigitChar(s[i])

\* int() of a string of digits.
RECURSIVE ToInt(_)
ToInt(s) ==
    IF s = << >> THEN 0
    ELSE 10 * ToInt(SubSeq(s, 1, Len(s) - 1)) + DigitVal(s[Len(s)])

\* re.sub(r'\s*\([^)]*\)\s*$', '', raw) on a stripped string: the leftmost
\* "(" that is followed by no ")" other than the last character starts the
\* match, together with the whitespace before it.
StripParenSuffix(s) ==
    IF /\ s # << >>
       /\ s[Len(s)] = ")"
       /\ \E j \in 1..(Len(s) - 1) :
              s[j] = "(" /\ \A k \in (j + 1)..(Len(s) - 1) : s[k] # ")"
    THEN LET j == CHOOSE j \in 1..(Len(s) - 1) :
                      /\ s[j] = "("
                      /\ \A k \in (j + 1)..(Len(s) - 1) : s[k] # ")"
                      /\ \A i \in 1..(j - 1) :
                             ~(s[i] = "(" /\ \A k \in (i + 1)..(Len(s) - 1) : s[k] # ")")
         IN  RStrip(SubSeq(s, 1, j - 1))
    ELSE s

(***************************************************************************)
(* normalize_status                                                        *)
(***************************************************************************)

\* The closed set of line 563.
ClosedStatuses ==
    { <<"b","a","c","k","l","o","g">>, <<"d","r","a","f","t","e","d">>, <<"r","e","a","d","y","-","f","o","r","-","d","e","v">>, <<"i","n","-","p","r","o","g","r","e","s","s">>, <<"r","e","v","i","e","w">>, <<"d","o","n","e">> }

\* Lines 557-560: lower, strip, drop a trailing parenthetical, strip.
CleanStatus(raw_status) == Strip(StripParenSuffix(Strip(Lower(raw_status))))

\* Lines 578-580: first word, "_" replaced by "-"; 'backlog' for the empty string.
FallbackStatus(raw) ==
    IF raw = << >> THEN <<"b","a","c","k","l","o","g">> ELSE ReplaceChar(FirstWord(raw), "_", "-")

normalize_status(raw_status) ==
    LET raw == CleanStatus(raw_status)
    IN  IF raw \in ClosedStatuses THEN raw
        ELSE IF raw \in { <<"d","o","n","e">>, <<"c","o","m","p","l","e","t","e">>, <<"c","o","m","p","l","e","t","e","d">>, <<"f","i","n","i","s","h","e","d">> } THEN <<"d","o","n","e">>
        ELSE IF StartsWith(raw, <<"r","e","a","d","y"," ","f","o","r"," ","r","e","v","i","e","w">>) \/ raw = <<"r","e","a","d","y","-","f","o","r","-","r","e","v","i","e","w">>
             THEN <<"r","e","v","i","e","w">>
        ELSE IF \/ StartsWith(raw, <<"i","n"," ","p","r","o","g","r","e","s","s">>)
                \/ StartsWith(raw, <<"i","n","-","p","r","o","g","r","e","s","s">>)
                \/ raw = <<"w","i","p">>
             THEN <<"i","n","-","p","r","o","g","r","e","s","s">>
        ELSE IF \/ StartsWith(raw, <<"r","e","a","d","y"," ","f","o","r"," ","d","e","v">>)
                \/ StartsWith(raw, <<"r","e","a","d","y","-","f","o","r","-","d","e","v">>)
                \/ raw = <<"r","e","a","d","y">>
             THEN <<"r","e","a","d","y","-","f","o","r","-","d","e","v">>
        ELSE IF raw = <<"d","r","a","f","t">> \/ raw = <<"d","r","a","f","t","e","d">> THEN <<"d","r","a","f","t","e","d">>
        ELSE FallbackStatus(raw)

(***************************************************************************)
(* get_status_from_story_file                                              *)
(*                                                                         *)
(* A per-item document is [state |-> "missing"], [state |-> "unreadable"]  *)
(* (os.path.exists is true, open or readline raises) or                    *)
(* [state |-> "file", lines |-> <<line, ...>>]; a line is given without    *)
(* its newline.  story_docs maps an item key to its document, which stands *)
(* for os.path.join(story_dir, key + ".md").                               *)
(***************************************************************************)

\* range(10) of line 536.
ScanLines == 10

\* re.match(r'^Status:\s*(.+)', line, re.IGNORECASE): group(1), or None.
\* "." does not match the newline, so the group needs one character of the
\* line; when all of them are whitespace \s* gives the last one back.
StatusLineMatch(line) ==
    IF Len(line) > 7 /\ Lower(SubSeq(line, 1, 7)) = <<"s","t","a","t","u","s",":">>
    THEN LET rest == SubSeq(line, 8, Len(line))
         IN  IF LStrip(rest) = << >> THEN <<rest[Len(rest)]>> ELSE LStrip(rest)
    ELSE None

\* Lines 536-545: the first matching line among the first ScanLines lines.
RECURSIVE ScanForStatus(_, _)
ScanForStatus(lines, i) ==
    IF i > ScanLines \/ i > Len(lines) THEN None
    ELSE IF StatusLineMatch(lines[i]) # None
         THEN normalize_status(Lower(Strip(StatusLineMatch(lines[i]))))
         ELSE ScanForStatus(lines, i + 1)

get_status_from_story_file(docs, story_key) ==
    LET doc == docs[story_key]
    IN  IF doc.state = "missing" THEN None
        ELSE IF doc.state = "unreadable" THEN None
        ELSE ScanForStatus(doc.lines, 1)

(***************************************************************************)
(* parse_sprint_status                                                     *)
(*                                                                         *)
(* The authoritative source is                                             *)
(*   [kind |-> "error", error |-> e]   open or yaml.safe_load raises;      *)
(*   [kind |-> "empty"]                falsy data (an empty file);         *)
(*   [kind |-> "toplevel_not_mapping"] the document is a list or a scalar; *)
(*   [kind |-> "dev_status_not_mapping", yaml_dir |-> y,                   *)
(*    story_location |-> l]            development_status is a list, a     *)
(*                                     scalar or null;                     *)
(*   [kind |-> "ok", dev_status |-> <<[key, status], ...>>,                *)
(*    yaml_dir |-> y, story_location |-> l]                                *)
(*                                     the development_status mapping in   *)
(*                                     file order, keys distinct.          *)
(* yaml_dir is os.path.dirname(yaml_file), '' when the source path is a    *)
(* bare file name; story_location is the value of that key, '' when it is  *)
(* absent.  A directory is named by its path from the project root.       *)
(*                                                                         *)
(* The value of a call is the dict it returns, or [raises |-> e] when the  *)
(* exception e leaves the function.                                        *)
(***************************************************************************)

\* The directories that hold per-item documents, by their paths from the
\* project root.
Dirs == { "stories", "docs" }

\* The current directory, under the name os.path.dirname gives it for a bare
\* file name.
CurrentDir == ""

\* Lines 598-621: the directory the documents are read from.  When
\* story_location is set, the directory of that name found from yaml_dir
\* upwards (lines 606-616); when there is none, or no story_location,
\* yaml_dir (lines 618-621).
StoryDir(yaml_dir, story_location) ==
    IF story_location # "" /\ story_location \in Dirs THEN story_location
    ELSE yaml_dir

\* Line 636: an epic entry.
IsEpicKey(key) ==
    /\ StartsWith(key, <<"e","p","i","c","-">>)
    /\ LET parts == SplitOn(key, "-")
           last  == parts[Len(parts)]
       IN  ~ \E i \in 1..Len(last) : last[i] # "e" /\ IsAlpha(last[i])

\* Lines 649-650: a story entry.
IsStoryKey_ThreeParts(key) ==
    LET parts == SplitOn(key, "-")
    IN  Len(parts) >= 3 /\ IsDigits(parts[1])

IsStoryKey(key) ==
    LET parts == SplitOn(key, "-")
    IN  Len(parts) >= 2 /\ IsDigits(parts[1])

\* Line 632.
IsRetrospective(key) == Contains(key, <<"r","e","t","r","o","s","p","e","c","t","i","v","e">>)

\* Lines 663-680: the story entry.
StoryEntry(docs, key, status) ==
    LET file_status   == get_status_from_story_file(docs, key)
        yaml_status   == status
        actual_status == IF file_status # None THEN file_status ELSE yaml_status
        base          == [key |-> key, status |-> actual_status]
    IN  IF file_status # None /\ file_status # yaml_status
        THEN base @@ [file_status |-> file_status, yaml_status |-> yaml_status,
                      status_mismatch |-> TRUE]
        ELSE base

\* Lines 646 and 659: epic_order.append(epic_num).
AppendEpic_Front(epic_order, epic_num) == <<epic_num>> \o epic_order

AppendEpic(epic_order, epic_num) == Append(epic_order, epic_num)

\* Lines 630-682: one iteration of the loop over dev_status.items(), on
\* acc = [epics |-> function from epic key to epic, epic_order |-> keys].
ParseEntry(acc, docs, key, status) ==
    IF IsRetrospective(key) THEN acc
    ELSE IF IsEpicKey(key)
    THEN IF key \in DOMAIN acc.epics THEN acc
         ELSE [epics |-> acc.epics @@
                         (key :> [key |-> key, status |-> status, stories |-> << >>]),
               epic_order |-> AppendEpic(acc.epic_order, key)]
    ELSE IF IsStoryKey(key)
    THEN LET epic_num == <<"e","p","i","c","-">> \o SplitOn(key, "-")[1]
             acc1 == IF epic_num \in DOMAIN acc.epics THEN acc
                     ELSE [epics |-> acc.epics @@
                                     (epic_num :> [key |-> epic_num,
                                                   status |-> <<"i","n","-","p","r","o","g","r","e","s","s">>,
                                                   stories |-> << >>]),
                           epic_order |-> AppendEpic(acc.epic_order, epic_num)]
         IN  [acc1 EXCEPT !.epics[epic_num].stories =
                              Append(@, StoryEntry(docs, key, status))]
    ELSE acc

RECURSIVE ParseEntries(_, _, _, _)
ParseEntries(acc, docs, dev_status, i) ==
    IF i > Len(dev_status) THEN acc
    ELSE ParseEntries(ParseEntry(acc, docs, dev_status[i].key, dev_status[i].status),
                      docs, dev_status, i + 1)

\* re.findall(r'\d+', s): the maximal digit runs, in order.
RECURSIVE DigitRuns(_)
DigitRuns(s) ==
    IF s = << >> THEN << >>
    ELSE IF ~IsDigit(Head(s)) THEN DigitRuns(Tail(s))
    ELSE LET n == CHOOSE m \in 1..Len(s) :
                      /\ \A k \in 1..m : IsDigit(s[k])
                      /\ m = Len(s) \/ ~IsDigit(s[m + 1])
         IN  <<SubSeq(s, 1, n)>> \o DigitRuns(SubSeq(s, n + 1, Len(s)))

\* Lines 686-698.
\* A sort key is <<"num", n, m>> for the tuple (n, m) and <<"inf", key>> for
\* (float('inf'), key).
story_sort_key_FirstNumberOnly(story) ==
    LET numbers == DigitRuns(story.key)
    IN  IF Len(numbers) >= 1 THEN <<"num", ToInt(numbers[1]), 0>>
        ELSE <<"inf", story.key>>

story_sort_key(story) ==
    LET numbers == DigitRuns(story.key)
    IN  IF Len(numbers) >= 2 THEN <<"num", ToInt(numbers[1]), ToInt(numbers[2])>>
        ELSE IF Len(numbers) = 1 THEN <<"num", ToInt(numbers[1]), 0>>
        ELSE <<"inf", story.key>>

\* Code points of the characters of keys, for comparing strings.
CharOrder == <<"-","0","1","2","3","4","5","6","7","8","9","_",
               "a","b","c","d","e","f","g","h","i","j","k","l","m","n","o","p",
               "q","r","s","t","u","v","w","x","y","z","²">>

CharCode(c) == CHOOSE i \in 1..Len(CharOrder) : CharOrder[i] = c

\* s < t for strings.
RECURSIVE StrLess(_, _)
StrLess(s, t) ==
    IF t = << >> THEN FALSE
    ELSE IF s = << >> THEN TRUE
    ELSE IF Head(s) # Head(t) THEN CharCode(Head(s)) < CharCode(Head(t))
    ELSE StrLess(Tail(s), Tail(t))

\* a < b for two sort keys, as Python compares tuples.
SortKeyLess_KeyIgnored(a, b) ==
    IF a[1] = "inf" \/ b[1] = "inf" THEN a[1] # "inf"
    ELSE a[2] < b[2] \/ (a[2] = b[2] /\ a[3] < b[3])

SortKeyLess(a, b) ==
    IF a[1] = "inf" /\ b[1] = "inf" THEN StrLess(a[2], b[2])
    ELSE IF a[1] = "inf" THEN FALSE
    ELSE IF b[1] = "inf" THEN TRUE
    ELSE a[2] < b[2] \/ (a[2] = b[2] /\ a[3] < b[3])

\* list.sort(key=story_sort_key): stable; an element goes after the elements
\* that are not greater than it.
RECURSIVE InsertStory(_, _)
InsertStory(sorted, story) ==
    IF sorted = << >> THEN <<story>>
    ELSE IF SortKeyLess(story_sort_key(story), story_sort_key(Head(sorted)))
         THEN <<story>> \o sorted
         ELSE <<Head(sorted)>> \o InsertStory(Tail(sorted), story)

RECURSIVE SortStories(_)
SortStories(stories) ==
    IF stories = << >> THEN << >>
    ELSE InsertStory(SortStories(SubSeq(stories, 1, Len(stories) - 1)),
                     stories[Len(stories)])

parse_sprint_status(source, docs) ==
    IF source.kind = "error" THEN [error |-> source.error, epics |-> << >>]
    ELSE IF source.kind = "empty" THEN [epics |-> << >>]
    \* line 599: data.get on a list or a scalar
    ELSE IF source.kind = "toplevel_not_mapping" THEN [raises |-> "AttributeError"]
    \* line 630: dev_status.items() on a list, a scalar or None
    ELSE IF source.kind = "dev_status_not_mapping" THEN [raises |-> "AttributeError"]
    ELSE LET acc == ParseEntries([epics |-> << >>, epic_order |-> << >>],
                                 docs, source.dev_status, 1)
         IN  ("epics" :> [i \in 1..Len(acc.epic_order) |->
                            [acc.epics[acc.epic_order[i]] EXCEPT
                                !.stories = SortStories(@)]])
             @@ ("_story_dir" :> StoryDir(source.yaml_dir, source.story_location))

(***************************************************************************)
(* The wire payload                                                        *)
(***************************************************************************)

\* The keys of the dicts, as strings of characters.
FieldName ==
    [k \in {"epics", "error", "_story_dir", "key", "status", "stories",
            "file_status", "yaml_status", "status_mismatch"} |->
        CASE k = "epics" -> <<"e","p","i","c","s">>
          [] k = "error" -> <<"e","r","r","o","r">>
          [] k = "_story_dir" -> <<"_","s","t","o","r","y","_","d","i","r">>
          [] k = "key" -> <<"k","e","y">>
          [] k = "status" -> <<"s","t","a","t","u","s">>
          [] k = "stories" -> <<"s","t","o","r","i","e","s">>
          [] k = "file_status" -> <<"f","i","l","e","_","s","t","a","t","u","s">>
          [] k = "yaml_status" -> <<"y","a","m","l","_","s","t","a","t","u","s">>
          [] k = "status_mismatch" -> <<"s","t","a","t","u","s","_","m","i","s","m","a","t","c","h">>]

\* Lines 737, 745 and 816:
\* {k: v for k, v in data.items() if not k.startswith('_')}
send_data_Unfiltered(data) == data

send_data(data) ==
    [k \in { f \in DOMAIN data : ~StartsWith(FieldName[f], <<"_">>) } |-> data[k]]

(***************************************************************************)
(* State                                                                   *)
(***************************************************************************)

VARIABLES
    \* resolver, as a function under test
    raw_status,           \* the argument of normalize_status
    normalized,           \* <<normalize_status(raw_status), normalize_status of that>>
    yaml_source,          \* the authoritative source read by parse_sprint_status
    story_docs,           \* item key -> per-item document
    parse_pc,             \* "input" | "resolved"
    snapshot,             \* the value parse_sprint_status returned
    wire,                 \* the payload built from it, and where: [site, payload]
    \* server
    proc,                 \* "running" | "exited"
    exit_code,            \* the argument of sys.exit, -1 while running
    connected_clients,    \* the global set of websockets
    shutdown_task,        \* the global: None or the viewer whose leave created the task
    timer,                \* per shutdown_timer task: [state, left]
    hpc,                  \* per viewer: where its websocket_handler is
    conn,                 \* per viewer: "open" | "closed", the connection's state
    failed,               \* per viewer: "no", or where a send to it first raised:
                          \* "broadcast" (line 820) or "handler" (lines 738, 746)
    wpc,                  \* file_watcher: "sleep" | "gather"
    recipients,           \* the clients of the pass's list of sends (line 820)
    pending,              \* the sends of the current gather that have not run
    pass_sends,           \* per viewer: the sends of the current pass
    pass_resolved,        \* the calls of parse_sprint_status in the current pass
    yaml_mtime,           \* os.path.getmtime(yaml_path)
    dir_mtime,            \* per directory and document: its mtime, NoFile when the
                          \* directory has no such document
    story_dir,            \* the global: the directory the watcher samples
    last_modified,        \* the global
    last_story_modified,  \* the global
    message,              \* per viewer: the message its handler took last (line 741)
    data,                 \* per viewer: what its handler resolved and has yet to send
                          \* (lines 736 and 744)
    \* launch
    lpc,                  \* where the launch is: "args" | "main" | "binding" | "bound" |
                          \* "serving" | "exit"
    yaml_exists,          \* os.path.exists(yaml_path)
    port,                 \* the port chosen at line 883, 0 before that
    stdout,               \* the lines main has printed, in order
    listened,             \* the listening sockets opened and closed, in order
    watcher_task,         \* "none" | "created" | "cancelled": the file_watcher task
    watcher_error         \* the latest sampling pass printed "File watcher error"
                          \* (line 825)

resolverVars == <<raw_status, normalized, yaml_source, story_docs, parse_pc, snapshot,
                  wire>>

lifecycleVars == <<proc, exit_code, connected_clients, shutdown_task, timer, hpc, conn,
                   failed>>

watcherVars == <<wpc, recipients, pending, pass_sends, pass_resolved,
                 yaml_mtime, dir_mtime, story_dir, last_modified,
                 last_story_modified>>

\* The locals of the handlers.
localVars == <<message, data>>

\* The launch, and what the process has printed.
launchVars == <<lpc, yaml_exists, port, stdout, listened, watcher_task, watcher_error>>

serverVars == <<lifecycleVars, watcherVars, localVars, launchVars>>

vars == <<resolverVars, serverVars>>

(***************************************************************************)
(* Bounds and inputs                                                       *)
(***************************************************************************)

\* The raw status strings are the concatenations of at most MaxFragments fragments.
MaxFragments == 3

\* The development_status mappings have at most MaxEntries entries.
MaxEntries == 3

\* A document has at most MaxPad lines before its status line.
MaxPad == 10

StatusFragments ==
    { <<"d","o","n","e">>, <<"c","o","m","p","l","e","t","e">>, <<"r","e","a","d","y">>, <<"f","o","r">>, <<"r","e","v","i","e","w">>, <<"d","e","v">>, <<"i","n">>, <<"p","r","o","g","r","e","s","s">>,
      <<"w","i","p">>, <<"D","r","a","f","t">>, <<"e","d">>, <<" ">>, <<"-">>, <<"_">>, <<"(","x",")">> }

RECURSIVE Concat(_)
Concat(ss) == IF ss = << >> THEN << >> ELSE Head(ss) \o Concat(Tail(ss))

StatusInputs ==
    { Concat(fs) : fs \in UNION { [1..n -> StatusFragments] : n \in 0..MaxFragments } }

\* Keys of the development_status mapping.
StoryKeys == { <<"1","-","1","-","a">>, <<"1","-","2","-","b">>, <<"1","-","1","0","-","c">>, <<"0","1","-","2","-","b">>, <<"1","-","s">>,
               <<"²","-","a">>, <<"²","-","b">>, <<"²","-","1","-","x">> }

KeyUniverse ==
    StoryKeys \cup { <<"e","p","i","c","-","1">>, <<"1","-","3","-","r","e","t","r","o","s","p","e","c","t","i","v","e">>, <<"m","i","s","c">> }

\* Status values of the mapping.
YamlStatuses == { <<"d","o","n","e">>, <<"D","o","n","e">>, <<"c","o","m","p","l","e","t","e">>, <<"i","n","-","p","r","o","g","r","e","s","s">>, <<"r","e","v","i","e","w">> }

\* Status lines of a document.
StatusLines ==
    { <<"S","t","a","t","u","s",":"," ","d","o","n","e">>, <<"s","t","a","t","u","s",":"," ","I","n"," ","P","r","o","g","r","e","s","s">>, <<"S","t","a","t","u","s",":">>,
      <<"S","T","A","T","U","S",":"," ","R","e","a","d","y"," ","f","o","r"," ","R","e","v","i","e","w"," ","(","p","e","n","d","i","n","g",")">>, <<"S","t","a","t","u","s",":"," ","c","o","m","p","l","e","t","e">> }

FillerLine == <<"#"," ","S","t","o","r","y">>

NoDocs == [k \in KeyUniverse |-> [state |-> "missing"]]

\* The documents of one item: missing, unreadable, or pad filler lines followed
\* by nothing or by a status line.
DocChoices ==
    { [state |-> "missing"], [state |-> "unreadable"] }
    \cup { [state |-> "file", lines |-> [i \in 1..pad |-> FillerLine] \o tail] :
             pad \in 0..MaxPad, tail \in { << >> } \cup { <<l>> : l \in StatusLines } }

\* One item, every index status, every document.
ItemInputs ==
    { [source |-> [kind |-> "ok",
                   dev_status |-> << [key |-> <<"1","-","1","-","a">>, status |-> st] >>,
                   yaml_dir |-> "docs", story_location |-> "stories"],
       docs   |-> [NoDocs EXCEPT ![<<"1","-","1","-","a">>] = d]] :
        st \in YamlStatuses, d \in DocChoices }

\* Sequences of distinct keys.
KeySeqs ==
    { ks \in UNION { [1..n -> KeyUniverse] : n \in 0..MaxEntries } :
        \A i, j \in 1..Len(ks) : i # j => ks[i] # ks[j] }

ReviewDoc == [state |-> "file", lines |-> << FillerLine, <<"S","t","a","t","u","s",":"," ","r","e","v","i","e","w">> >>]

\* Every order of the keys; no document, or the document of 1-1-a.
OrderInputs ==
    { [source |-> [kind |-> "ok",
                   dev_status |-> [i \in 1..Len(ks) |->
                                      [key |-> ks[i], status |-> <<"d","o","n","e">>]],
                   yaml_dir |-> "docs", story_location |-> "stories"],
       docs   |-> dd] :
        ks \in KeySeqs,
        dd \in { NoDocs, [NoDocs EXCEPT ![<<"1","-","1","-","a">>] = ReviewDoc] } }

\* A source that cannot be read or parsed, an empty one, and sources that
\* parse to something other than a mapping with a development_status mapping.
BrokenInputs ==
    { [source |-> [kind |-> "error", error |-> "cannot parse"], docs |-> NoDocs],
      [source |-> [kind |-> "empty"], docs |-> NoDocs],
      [source |-> [kind |-> "toplevel_not_mapping"], docs |-> NoDocs],
      [source |-> [kind |-> "dev_status_not_mapping", yaml_dir |-> "docs", story_location |-> "stories"],
       docs |-> NoDocs] }

ParseInputs == ItemInputs \cup OrderInputs \cup BrokenInputs

(***************************************************************************)
(* The resolver under test                                                 *)
(***************************************************************************)

\* No payload has been built.
NoPayload == [site |-> "none"]

\* The source the server is started on: no entries, documents in "stories".
ServedSource ==
    [kind |-> "ok", dev_status |-> << >>, yaml_dir |-> "docs", story_location |-> "stories"]

ResolverIdle ==
    /\ raw_status = << >>
    /\ normalized = << >>
    /\ yaml_source = ServedSource
    /\ story_docs = NoDocs
    /\ parse_pc = "input"
    /\ snapshot = [epics |-> << >>]
    /\ wire = NoPayload

\* normalize_status applied to the input, then to its own result.
Normalize ==
    /\ Len(normalized) < 2
    /\ normalized' = Append(normalized,
                            normalize_status(IF normalized = << >> THEN raw_status
                                             ELSE normalized[Len(normalized)]))
    /\ UNCHANGED <<raw_status, yaml_source, story_docs, parse_pc, snapshot, wire,
                   serverVars>>

\* parse_sprint_status applied to the input.
Resolve ==
    /\ parse_pc = "input"
    /\ snapshot' = parse_sprint_status(yaml_source, story_docs)
    /\ parse_pc' = "resolved"
    /\ UNCHANGED <<raw_status, normalized, yaml_source, story_docs, wire, serverVars>>

\* The places that build a payload: the handler on join (lines 735-738), the
\* handler on "refresh" (lines 743-746), the watcher (lines 810-818).
Sites == {"join", "refresh", "broadcast"}

\* One of them resolves the input and builds its payload; when
\* parse_sprint_status raises, nothing is built.
BuildPayload(site) ==
    /\ parse_pc = "input"
    /\ snapshot' = parse_sprint_status(yaml_source, story_docs)
    /\ IF "raises" \in DOMAIN snapshot'
       THEN /\ parse_pc' = "raised"
            /\ UNCHANGED wire
       ELSE /\ parse_pc' = "built"
            /\ wire' = [site |-> site, payload |-> send_data(snapshot')]
    /\ UNCHANGED <<raw_status, normalized, yaml_source, story_docs, serverVars>>

(***************************************************************************)
(* The server                                                              *)
(*                                                                         *)
(* asyncio runs one task at a time and switches tasks only at an await, so *)
(* an action is the code of one task from one await to the next.  The      *)
(* websockets library is the environment: a connection is open until it    *)
(* closes (the peer disconnects or the network fails); send() on a closed  *)
(* connection raises ConnectionClosed, and the handler's `async for` ends  *)
(* or raises once the connection is closed.                                *)
(***************************************************************************)

\* The websockets that connect during a run, numbered in the order in which
\* they connect; each connects once.
NumViewers == 2

Viewers == 1..NumViewers

\* shutdown_task = None (line 44); a task is named by the viewer whose
\* handler created it.
NoTask == 0

\* asyncio.sleep(30) of line 761, in seconds.
IdleSeconds == 30

\* Time passes in steps of TickSeconds.
TickSeconds == 15

\* The modification times are 0..MaxMtime.
MaxMtime == 1

\* A handler holds no resolved snapshot.
NoData == << >>

\* The documents a directory may hold, and the mtime of one it does not hold.
DocFiles == { "1-1-a.md", "1-2-b.md" }

NoFile == -1

\* The directories with documents: Dirs and the current directory.
AllDirs == Dirs \cup { CurrentDir }

\* The largest element of a non-empty set of numbers.
Max(S) == CHOOSE m \in S : \A n \in S : n <= m

\* Every directory holds the document 1-1-a.md, with mtime mt[d].
OneDocEach(mt) ==
    [d \in AllDirs |-> [f \in DocFiles |-> IF f = "1-1-a.md" THEN mt[d] ELSE NoFile]]

\* parse_sprint_status(yaml_path) in a handler reads the files as they are;
\* the modification times stand for what the files hold.
ResolveFiles_LastSeen ==
    <<last_modified,
      [d \in AllDirs |->
          [f \in DocFiles |->
              IF d = story_dir /\ dir_mtime[d][f] > last_story_modified
              THEN last_story_modified
              ELSE dir_mtime[d][f]]]>>

ResolveFiles == <<yaml_mtime, dir_mtime>>

\* Lines 773-786: the newest mtime of the documents of a listing, 0 when it
\* has none.
NewestMtime(files) ==
    Max({0} \cup { files[f] : f \in { g \in DOMAIN files : files[g] # NoFile } })

\* Lines 768-786: 0 for '' or for what is no directory, else the newest
\* mtime of the documents of the directory.
get_story_files_mtime(dir_path) ==
    IF dir_path = "" \/ dir_path \notin AllDirs THEN 0
    ELSE NewestMtime(dir_mtime[dir_path])

\* Lines 846 and 812: data.get('_story_dir', default).
StoryDirOf(parsed, default) ==
    IF "_story_dir" \in DOMAIN parsed THEN parsed["_story_dir"] ELSE default

\* The port the server is started on with --port.
GivenPort == 8765

\* Lines 849-852: what main prints before it starts the watcher.
StartLines(p, dir) ==
    << [line |-> "Starting server", port |-> p], [line |-> "Watching"] >>
    \o (IF dir # "" THEN << [line |-> "Watching story files"] >> ELSE << >>)

\* Lines 865-866: what main prints once the server is set up.
ReadyLines_PortLast(p) ==
    << [line |-> "Server ready", port |-> p], [line |-> "PORT=", port |-> p] >>

ReadyLines(p) ==
    << [line |-> "PORT=", port |-> p], [line |-> "Server ready", port |-> p] >>

\* A listening socket is opened, or closed.
Listen(sock, p) == [sock |-> sock, op |-> "listen", port |-> p]
Closed(sock, p) == [sock |-> sock, op |-> "close", port |-> p]

\* The launch is over: main is at line 870, started with --port GivenPort on
\* a source that exists.
Launched ==
    /\ lpc = "serving"
    /\ yaml_exists = TRUE
    /\ port = GivenPort
    /\ stdout = StartLines(GivenPort, story_dir) \o ReadyLines(GivenPort)
    /\ listened = << Listen("server", GivenPort) >>
    /\ watcher_task = "created"
    /\ watcher_error = FALSE

\* The globals once main has run to line 870 with the documents' mtimes
\* files, no viewer connected yet.
ServerStart(files) ==
    /\ proc = "running"
    /\ exit_code = -1
    /\ connected_clients = {}
    /\ shutdown_task = NoTask
    /\ timer = [v \in Viewers |-> [state |-> "none", left |-> 0]]
    /\ hpc = [v \in Viewers |-> "absent"]
    /\ conn = [v \in Viewers |-> "open"]
    /\ failed = [v \in Viewers |-> "no"]
    /\ wpc = "sleep"
    /\ recipients = {}
    /\ pending = {}
    /\ pass_sends = [v \in Viewers |-> 0]
    /\ pass_resolved = 0
    /\ yaml_mtime = 0
    /\ dir_mtime = files
    /\ story_dir = StoryDirOf(parse_sprint_status(yaml_source, story_docs), "")
    /\ last_modified = 0
    /\ last_story_modified = get_story_files_mtime(story_dir)
    /\ message = [v \in Viewers |-> "none"]
    /\ data = [v \in Viewers |-> NoData]
    /\ Launched

ServerInit == ServerStart(OneDocEach([d \in AllDirs |-> 0]))

\* Task.cancel(): a task that has not finished gets CancelledError at its
\* await, also when its sleep has already elapsed; a finished task is left alone.
CancelTimer(tm, t) ==
    IF t # NoTask /\ tm[t].state = "sleeping"
    THEN [tm EXCEPT ![t].state = "cancelled"]
    ELSE tm

\* Lines 727-729.
CancelPendingShutdown_Forgotten(tm, task) == tm

CancelPendingShutdown(tm, task) == CancelTimer(tm, task)

\* Lines 724-738: the handler starts; it runs to the await of the first send.
JoinStep(v) ==
    /\ proc = "running"
    /\ hpc[v] = "absent"
    /\ \A u \in Viewers : u < v => hpc[u] # "absent"
    /\ timer' = CancelPendingShutdown(timer, shutdown_task)
    /\ shutdown_task' = NoTask
    /\ connected_clients' = connected_clients \cup {v}
    /\ hpc' = [hpc EXCEPT ![v] = "send_initial"]
    /\ UNCHANGED <<proc, exit_code, conn, failed, watcherVars, resolverVars, launchVars>>

\* The join, with what the handler resolves left out.
Join(v) == JoinStep(v) /\ UNCHANGED localVars

\* The join, with the snapshot the handler resolves at line 736.
HandlerJoin(v) ==
    /\ JoinStep(v)
    /\ data' = [data EXCEPT ![v] = ResolveFiles]
    /\ UNCHANGED message

\* Line 754: whether the leave starts a countdown.
StartsCountdown_Always(clients) == TRUE

StartsCountdown(clients) == Cardinality(clients) = 0

\* Line 750.
Discard_Forgotten(clients, v) == clients

Discard(clients, v) == clients \ {v}

\* Lines 749-755, the finally block: what it does to the set and the timer;
\* the handler returns and its locals are gone.
LeaveEffect(v) ==
    /\ connected_clients' = Discard(connected_clients, v)
    /\ hpc' = [hpc EXCEPT ![v] = "done"]
    /\ message' = [message EXCEPT ![v] = "none"]
    /\ IF StartsCountdown(Discard(connected_clients, v))
       THEN /\ timer' = [timer EXCEPT ![v] = [state |-> "sleeping", left |-> IdleSeconds]]
            /\ shutdown_task' = v
       ELSE UNCHANGED <<timer, shutdown_task>>

\* Lines 738 and 746: the awaited send returns, or raises ConnectionClosed,
\* which line 747 catches before the finally block runs.
SendDone(v) ==
    /\ proc = "running"
    /\ hpc[v] \in {"send_initial", "send_refresh"}
    /\ IF conn[v] = "open"
       THEN /\ hpc' = [hpc EXCEPT ![v] = "recv"]
            /\ UNCHANGED <<connected_clients, timer, shutdown_task, failed, message>>
       ELSE /\ LeaveEffect(v)
            /\ failed' = [failed EXCEPT ![v] = IF @ = "no" THEN "handler" ELSE @]
    /\ data' = [data EXCEPT ![v] = NoData]
    /\ UNCHANGED <<proc, exit_code, conn, watcherVars, resolverVars, launchVars>>

\* Line 743.
IsRefreshRequest_Any(m) == TRUE

IsRefreshRequest(m) == m = "refresh"

\* Lines 741-745: a message arrives; "refresh" resolves and sends.
MessageStep(v, m) ==
    /\ proc = "running"
    /\ hpc[v] = "recv"
    /\ conn[v] = "open"
    /\ hpc' = [hpc EXCEPT ![v] = IF IsRefreshRequest(m) THEN "send_refresh" ELSE "recv"]
    /\ UNCHANGED <<proc, exit_code, connected_clients, shutdown_task, timer, conn,
                   failed, watcherVars, resolverVars, launchVars>>

\* The message, with the handler's locals left out.
Message(v, m) == MessageStep(v, m) /\ UNCHANGED localVars

\* The message, with the loop variable of line 741 and the snapshot the
\* handler resolves at line 744.
HandlerMessage(v, m) ==
    /\ MessageStep(v, m)
    /\ message' = [message EXCEPT ![v] = m]
    /\ data' = IF IsRefreshRequest(m) THEN [data EXCEPT ![v] = ResolveFiles] ELSE data

\* The connection closes: the viewer disconnects, or the network fails.
Close(v) ==
    /\ proc = "running"
    /\ hpc[v] \in {"send_initial", "recv", "send_refresh"}
    /\ conn[v] = "open"
    /\ conn' = [conn EXCEPT ![v] = "closed"]
    /\ UNCHANGED <<proc, exit_code, connected_clients, shutdown_task, timer, hpc,
                   failed, watcherVars, resolverVars, launchVars, localVars>>

\* Lines 741, 747-755: the message loop ends on the closed connection.
HandlerClosed(v) ==
    /\ proc = "running"
    /\ hpc[v] = "recv"
    /\ conn[v] = "closed"
    /\ LeaveEffect(v)
    /\ UNCHANGED <<proc, exit_code, conn, failed, watcherVars, resolverVars, launchVars, data>>

\* TickSeconds pass for every task in asyncio.sleep(30).
Tick ==
    /\ proc = "running"
    /\ \E t \in Viewers : timer[t].state = "sleeping" /\ timer[t].left > 0
    /\ timer' = [t \in Viewers |->
                    IF timer[t].state = "sleeping" /\ timer[t].left > TickSeconds
                    THEN [timer[t] EXCEPT !.left = @ - TickSeconds]
                    ELSE IF timer[t].state = "sleeping"
                    THEN [timer[t] EXCEPT !.left = 0]
                    ELSE timer[t]]
    /\ UNCHANGED <<proc, exit_code, connected_clients, shutdown_task, hpc, conn,
                   failed, watcherVars, resolverVars, launchVars, localVars>>

\* Line 763.
ShutdownDue(clients) == Cardinality(clients) = 0

\* Lines 763-765: shutdown_timer resumes after its sleep.
TimerFire(t) ==
    /\ proc = "running"
    /\ timer[t].state = "sleeping"
    /\ timer[t].left = 0
    /\ IF ShutdownDue(connected_clients)
       THEN /\ proc' = "exited"
            /\ exit_code' = 0
            /\ timer' = [timer EXCEPT ![t].state = "exited"]
       ELSE /\ timer' = [timer EXCEPT ![t].state = "finished"]
            /\ UNCHANGED <<proc, exit_code>>
    /\ UNCHANGED <<connected_clients, shutdown_task, hpc, conn, failed, watcherVars,
                   resolverVars, launchVars, localVars>>

\* The source file or a document is written.
TouchYaml ==
    /\ proc = "running"
    /\ yaml_exists
    /\ yaml_mtime < MaxMtime
    /\ yaml_mtime' = yaml_mtime + 1
    /\ UNCHANGED <<proc, exit_code, connected_clients, shutdown_task, timer, hpc, conn,
                   failed, wpc, recipients, pending, pass_sends, pass_resolved,
                   dir_mtime, story_dir, last_modified, last_story_modified,
                   resolverVars, launchVars, localVars>>

\* Document f of directory d is written, or created: its mtime is the time
\* of the write, later than the mtimes of the documents the directory holds.
WriteDoc(d, f) ==
    /\ proc = "running"
    /\ NewestMtime(dir_mtime[d]) < MaxMtime
    /\ dir_mtime' = [dir_mtime EXCEPT ![d][f] = NewestMtime(dir_mtime[d]) + 1]
    /\ UNCHANGED <<proc, exit_code, connected_clients, shutdown_task, timer, hpc, conn,
                   failed, wpc, recipients, pending, pass_sends, pass_resolved,
                   yaml_mtime, story_dir, last_modified, last_story_modified,
                   resolverVars, launchVars, localVars>>

\* The document 1-1-a.md of directory d is written.
TouchDocs(d) == d \in AllDirs /\ WriteDoc(d, "1-1-a.md")

\* A document of the watched directory is written.
TouchStory == story_dir \in Dirs /\ TouchDocs(story_dir)

\* The source is rewritten with the story_location d.
Relocate(d) ==
    /\ proc = "running"
    /\ yaml_exists
    /\ yaml_source.kind = "ok"
    /\ yaml_source.story_location # d
    /\ yaml_mtime < MaxMtime
    /\ yaml_mtime' = yaml_mtime + 1
    /\ yaml_source' = [yaml_source EXCEPT !.story_location = d]
    /\ UNCHANGED <<proc, exit_code, connected_clients, shutdown_task, timer, hpc, conn,
                   failed, wpc, recipients, pending, pass_sends, pass_resolved,
                   dir_mtime, story_dir, last_modified, last_story_modified,
                   raw_status, normalized, story_docs, parse_pc, snapshot, wire,
                   localVars, launchVars>>

\* The source is rewritten as src: a file that cannot be parsed, an empty
\* one, one whose top level is no mapping, or a mapping again.
Rewrite(src) ==
    /\ proc = "running"
    /\ yaml_exists
    /\ yaml_source # src
    /\ yaml_mtime < MaxMtime
    /\ yaml_mtime' = yaml_mtime + 1
    /\ yaml_source' = src
    /\ UNCHANGED <<proc, exit_code, connected_clients, shutdown_task, timer, hpc, conn,
                   failed, wpc, recipients, pending, pass_sends, pass_resolved,
                   dir_mtime, story_dir, last_modified, last_story_modified,
                   raw_status, normalized, story_docs, parse_pc, snapshot, wire,
                   localVars, launchVars>>

\* The source is moved away.
RemoveYaml ==
    /\ proc = "running"
    /\ yaml_exists
    /\ yaml_exists' = FALSE
    /\ UNCHANGED <<lifecycleVars, watcherVars, resolverVars, localVars, lpc, port,
                   stdout, listened, watcher_task, watcher_error>>

\* The source is moved back, with the mtime it had.
RestoreYaml ==
    /\ proc = "running"
    /\ ~yaml_exists
    /\ yaml_exists' = TRUE
    /\ UNCHANGED <<lifecycleVars, watcherVars, resolverVars, localVars, lpc, port,
                   stdout, listened, watcher_task, watcher_error>>

\* Line 820: the clients the sends of a pass are created for.
BroadcastTargets_SkipOne(clients) ==
    IF clients = {} THEN {} ELSE clients \ {CHOOSE v \in clients : TRUE}

BroadcastTargets(clients) == clients

\* Lines 824-827: where the watcher is once a pass has raised: the except
\* clause of the loop's body catches it and the loop goes on to its sleep.
AfterPassError_Uncaught == "ended"

AfterPassError == "sleep"

\* Lines 795-820: one sampling pass, up to the await of the gather.  When
\* os.path.getmtime raises (line 798, the source is missing) nothing has
\* been recorded; when parse_sprint_status raises (line 810) the mtimes have
\* been.  Line 824 catches either, line 825 prints it, and nothing is sent.
WatcherSample ==
    /\ proc = "running"
    /\ wpc = "sleep"
    /\ LET current_modified       == yaml_mtime
           current_story_modified == get_story_files_mtime(story_dir)
           changed == \/ current_modified # last_modified
                      \/ current_story_modified # last_story_modified
           parsed  == parse_sprint_status(yaml_source, story_docs)
       IN  IF ~yaml_exists
           THEN /\ watcher_error' = TRUE
                /\ wpc' = AfterPassError
                /\ UNCHANGED <<last_modified, last_story_modified, story_dir,
                               recipients, pending, pass_sends, pass_resolved>>
           ELSE /\ last_modified' = current_modified
                /\ last_story_modified' = current_story_modified
                /\ IF changed /\ "raises" \in DOMAIN parsed
                   THEN /\ watcher_error' = TRUE
                        /\ wpc' = AfterPassError
                        /\ UNCHANGED <<story_dir, recipients, pending, pass_sends,
                                       pass_resolved>>
                   ELSE /\ watcher_error' = FALSE
                        /\ IF changed
                           THEN /\ story_dir' = StoryDirOf(parsed, story_dir)
                                /\ IF connected_clients # {}
                                   THEN /\ pass_resolved' = 1
                                        /\ recipients' = BroadcastTargets(connected_clients)
                                        /\ pending' = BroadcastTargets(connected_clients)
                                        /\ wpc' = "gather"
                                        /\ UNCHANGED pass_sends
                                   ELSE UNCHANGED <<wpc, recipients, pending, pass_sends,
                                                    pass_resolved>>
                           ELSE UNCHANGED <<story_dir, wpc, recipients, pending,
                                            pass_sends, pass_resolved>>
    /\ UNCHANGED <<proc, exit_code, connected_clients, shutdown_task, timer, hpc, conn,
                   failed, yaml_mtime, dir_mtime, resolverVars, lpc, yaml_exists, port,
                   stdout, listened, watcher_task, localVars>>

\* Line 821, return_exceptions=True: the sends that still run after one raised.
AfterFailedSend_Abort(rest) == {}

AfterFailedSend(rest) == rest

\* Lines 819-822: one send of the gather runs; an exception is kept as a result.
BroadcastSend(v) ==
    /\ proc = "running"
    /\ wpc = "gather"
    /\ v \in pending
    /\ pass_sends' = [pass_sends EXCEPT ![v] = @ + 1]
    /\ IF conn[v] = "open"
       THEN /\ pending' = pending \ {v}
            /\ UNCHANGED failed
       ELSE /\ pending' = AfterFailedSend(pending \ {v})
            /\ failed' = [failed EXCEPT ![v] = IF @ = "no" THEN "broadcast" ELSE @]
    /\ UNCHANGED <<proc, exit_code, connected_clients, shutdown_task, timer, hpc, conn,
                   wpc, recipients, pass_resolved, yaml_mtime, dir_mtime, story_dir,
                   last_modified, last_story_modified, resolverVars, launchVars, localVars>>

\* Lines 823-827: the gather returns; the watcher sleeps until the next pass.
WatcherGatherDone ==
    /\ proc = "running"
    /\ wpc = "gather"
    /\ pending = {}
    /\ wpc' = "sleep"
    /\ recipients' = {}
    /\ pass_sends' = [v \in Viewers |-> 0]
    /\ pass_resolved' = 0
    /\ UNCHANGED <<proc, exit_code, connected_clients, shutdown_task, timer, hpc, conn,
                   failed, pending, yaml_mtime, dir_mtime, story_dir, last_modified,
                   last_story_modified, resolverVars, launchVars, localVars>>

(***************************************************************************)
(* The launch                                                              *)
(***************************************************************************)

\* --port: absent (the default, 0) or given.
ArgPorts == {0, GivenPort}

\* The ports the system may assign to a socket bound to port 0.
EphemeralPorts == {49152, 49153}

\* Lines 34-40: binds a socket to port 0, puts it in listening state, reads
\* its port and closes it.
find_free_port(p) == << Listen("probe", p), Closed("probe", p) >>

\* Line 883.
SelectPort(args_port, free) ==
    /\ lpc = "args"
    /\ IF args_port > 0
       THEN /\ port' = args_port
            /\ UNCHANGED listened
       ELSE /\ port' = free
            /\ listened' = listened \o find_free_port(free)
    /\ lpc' = "main"
    /\ UNCHANGED <<yaml_exists, watcher_error, stdout, watcher_task, lifecycleVars, watcherVars,
                   localVars, resolverVars>>

\* Line 838.
SourceExists_Unchecked(exists) == TRUE

SourceExists(exists) == exists

\* Lines 832-858: main up to its first await, the one inside
\* `async with websockets.serve(...)`.  sys.exit(1) at line 840, and an
\* exception that parse_sprint_status raises at line 845, end the process
\* with exit code 1.
MainStart ==
    /\ lpc = "main"
    /\ proc = "running"
    /\ IF ~SourceExists(yaml_exists)
       THEN /\ stdout' = Append(stdout, [line |-> "Error: YAML file not found"])
            /\ proc' = "exited"
            /\ exit_code' = 1
            /\ lpc' = "exit"
            /\ UNCHANGED <<last_modified, story_dir, last_story_modified, watcher_task>>
       ELSE LET initial_data == parse_sprint_status(yaml_source, story_docs)
            IN  IF "raises" \in DOMAIN initial_data
                THEN /\ last_modified' = yaml_mtime
                     /\ proc' = "exited"
                     /\ exit_code' = 1
                     /\ lpc' = "exit"
                     /\ UNCHANGED <<stdout, story_dir, last_story_modified,
                                    watcher_task>>
                ELSE /\ last_modified' = yaml_mtime
                     /\ story_dir' = StoryDirOf(initial_data, "")
                     /\ last_story_modified' = get_story_files_mtime(story_dir')
                     /\ stdout' = stdout \o StartLines(port, story_dir')
                     /\ watcher_task' = "created"
                     /\ lpc' = "binding"
                     /\ UNCHANGED <<proc, exit_code>>
    /\ UNCHANGED <<yaml_exists, watcher_error, port, listened, connected_clients, shutdown_task, timer,
                   hpc, conn, failed, wpc, recipients, pending, pass_sends,
                   pass_resolved, yaml_mtime, dir_mtime, localVars, resolverVars>>

\* Lines 858-863: the server's socket is bound and listens.
BindOk ==
    /\ lpc = "binding"
    /\ proc = "running"
    /\ listened' = Append(listened, Listen("server", port))
    /\ lpc' = "bound"
    /\ UNCHANGED <<yaml_exists, watcher_error, port, stdout, watcher_task, lifecycleVars, watcherVars,
                   localVars, resolverVars>>

\* Lines 858-863: the port is taken; OSError leaves main, asyncio.run cancels
\* the watcher and the process ends with exit code 1.
BindFail ==
    /\ lpc = "binding"
    /\ proc = "running"
    /\ proc' = "exited"
    /\ exit_code' = 1
    /\ watcher_task' = "cancelled"
    /\ lpc' = "exit"
    /\ UNCHANGED <<yaml_exists, watcher_error, port, stdout, listened, connected_clients,
                   shutdown_task, timer, hpc, conn, failed, watcherVars, localVars,
                   resolverVars>>

\* Lines 864-870: main resumes inside the `async with`, prints and waits.
Announce ==
    /\ lpc = "bound"
    /\ proc = "running"
    /\ stdout' = stdout \o ReadyLines(port)
    /\ lpc' = "serving"
    /\ UNCHANGED <<yaml_exists, watcher_error, port, listened, watcher_task, lifecycleVars,
                   watcherVars, localVars, resolverVars>>

\* The server's socket listens: viewers can connect.
Listening == \E i \in 1..Len(listened) : listened[i] = Listen("server", port)

(* Specifications                                                          *)
(***************************************************************************)

\* The server.
Init == ResolverIdle /\ ServerInit

Next ==
    \/ \E v \in Viewers : Join(v)
    \/ \E v \in Viewers : SendDone(v)
    \/ \E v \in Viewers, m \in {"refresh", "other"} : Message(v, m)
    \/ \E v \in Viewers : Close(v)
    \/ \E v \in Viewers : HandlerClosed(v)
    \/ Tick
    \/ \E t \in Viewers : TimerFire(t)
    \/ TouchYaml
    \/ TouchStory
    \/ WatcherSample
    \/ \E v \in Viewers : BroadcastSend(v)
    \/ WatcherGatherDone

Spec == Init /\ [][Next]_vars

\* The event loop runs every task that is ready, and time passes: the steps
\* of the server's own tasks are taken when they stay enabled.  What viewers
\* and the file system do is not.
Fairness ==
    /\ \A v \in Viewers : WF_vars(SendDone(v))
    /\ \A v \in Viewers : WF_vars(HandlerClosed(v))
    /\ WF_vars(Tick)
    /\ \A t \in Viewers : WF_vars(TimerFire(t))
    /\ WF_vars(WatcherSample)
    /\ \A v \in Viewers : WF_vars(BroadcastSend(v))
    /\ WF_vars(WatcherGatherDone)

FairSpec == Init /\ [][Next]_vars /\ Fairness

\* The viewers whose handlers are followed with their locals.
HandlerViewers == {1, 2}

\* The server, with the locals of the handlers.
HandlerNext ==
    \/ \E v \in HandlerViewers : HandlerJoin(v)
    \/ \E v \in HandlerViewers : SendDone(v)
    \/ \E v \in HandlerViewers, m \in {"refresh", "other"} : HandlerMessage(v, m)
    \/ \E v \in HandlerViewers : Close(v)
    \/ \E v \in HandlerViewers : HandlerClosed(v)
    \/ Tick
    \/ \E t \in HandlerViewers : TimerFire(t)
    \/ TouchYaml
    \/ TouchStory
    \/ WatcherSample
    \/ \E v \in HandlerViewers : BroadcastSend(v)
    \/ WatcherGatherDone

HandlerSpec == Init /\ [][HandlerNext]_vars

\* The server where the documents of the directories have any mtimes at the
\* start, documents of any directory are written, and the source may be
\* rewritten to point to another directory.
DetectorInit ==
    /\ ResolverIdle
    /\ \E mt \in [AllDirs -> 0..MaxMtime] : ServerStart(OneDocEach(mt))

DetectorNext ==
    \/ \E v \in Viewers : Join(v)
    \/ \E v \in Viewers : SendDone(v)
    \/ \E v \in Viewers, m \in {"refresh", "other"} : Message(v, m)
    \/ \E v \in Viewers : Close(v)
    \/ \E v \in Viewers : HandlerClosed(v)
    \/ Tick
    \/ \E t \in Viewers : TimerFire(t)
    \/ TouchYaml
    \/ \E d \in Dirs : TouchDocs(d)
    \/ \E d \in Dirs : Relocate(d)
    \/ WatcherSample
    \/ \E v \in Viewers : BroadcastSend(v)
    \/ WatcherGatherDone

DetectorSpec == DetectorInit /\ [][DetectorNext]_vars

\* The viewers of the server with faults.
FaultViewers == {1}

\* The forms of the source at the start: the path a bare file name or a file
\* of the directory docs; story_location absent, naming a directory that
\* exists, or naming none.  The source lists the item 1-1-a.
FaultSources ==
    { [kind |-> "ok", dev_status |-> << [key |-> <<"1","-","1","-","a">>, status |-> <<"d","o","n","e">>] >>,
       yaml_dir |-> y, story_location |-> l] :
        y \in { CurrentDir, "docs" }, l \in { "", "stories", "gone" } }

\* What the source may be rewritten as.
FaultRewrites ==
    { [kind |-> "error", error |-> "cannot parse"],
      [kind |-> "empty"],
      [kind |-> "toplevel_not_mapping"] }

\* The server started on a source of any form, where the source may go
\* missing, be rewritten into any kind, or be pointed to another directory,
\* and documents of any directory are written.
FaultInit ==
    /\ raw_status = << >>
    /\ normalized = << >>
    /\ yaml_source \in FaultSources
    /\ story_docs = [NoDocs EXCEPT ![<<"1","-","1","-","a">>] = ReviewDoc]
    /\ parse_pc = "input"
    /\ snapshot = [epics |-> << >>]
    /\ wire = NoPayload
    /\ \E mt \in [AllDirs -> 0..MaxMtime] : ServerStart(OneDocEach(mt))

FaultNext ==
    \/ \E v \in FaultViewers : Join(v)
    \/ \E v \in FaultViewers : SendDone(v)
    \/ \E v \in FaultViewers, m \in {"refresh", "other"} : Message(v, m)
    \/ \E v \in FaultViewers : Close(v)
    \/ \E v \in FaultViewers : HandlerClosed(v)
    \/ Tick
    \/ \E t \in FaultViewers : TimerFire(t)
    \/ TouchYaml
    \/ \E d \in AllDirs : TouchDocs(d)
    \/ \E d \in Dirs : Relocate(d)
    \/ \E src \in FaultRewrites : Rewrite(src)
    \/ RemoveYaml
    \/ RestoreYaml
    \/ WatcherSample
    \/ \E v \in FaultViewers : BroadcastSend(v)
    \/ WatcherGatherDone

FaultSpec == FaultInit /\ [][FaultNext]_vars

\* The viewers of the server whose documents come and go.
DocsViewers == {1}

\* A source in docs that lists two items as done, their documents in stories.
DocsSource ==
    [kind |-> "ok",
     dev_status |-> << [key |-> <<"1","-","1","-","a">>, status |-> <<"d","o","n","e">>],
                       [key |-> <<"1","-","2","-","b">>, status |-> <<"d","o","n","e">>] >>,
     yaml_dir |-> "docs", story_location |-> "stories"]

\* Line 529: the item whose document a file is.
KeyOfFile(f) == IF f = "1-1-a.md" THEN <<"1","-","1","-","a">> ELSE <<"1","-","2","-","b">>

DoneDoc == [state |-> "file", lines |-> << FillerLine, <<"S","t","a","t","u","s",":"," ","d","o","n","e">> >>]

\* What a document may hold.
DocContents == { ReviewDoc, DoneDoc }

\* The mtimes of the documents that exist.
DocMtimes == 1..(MaxMtime + 1)

\* The directory stories holds the documents of present, with their mtimes;
\* the other directories hold none.
StoriesHolds(present, mt) ==
    [d \in AllDirs |->
        [f \in DocFiles |-> IF d = "stories" /\ f \in present THEN mt[f] ELSE NoFile]]

\* The server started on DocsSource, with any of the two documents in
\* stories; documents are modified, added and removed.
DocsInit ==
    /\ raw_status = << >>
    /\ normalized = << >>
    /\ yaml_source = DocsSource
    /\ parse_pc = "input"
    /\ snapshot = [epics |-> << >>]
    /\ wire = NoPayload
    /\ \E present \in SUBSET DocFiles, mt \in [DocFiles -> DocMtimes] :
          /\ story_docs \in { docs \in [KeyUniverse -> DocContents \cup {[state |-> "missing"]}] :
                                 /\ \A f \in present : docs[KeyOfFile(f)] \in DocContents
                                 /\ \A k \in KeyUniverse :
                                        k \notin { KeyOfFile(f) : f \in present }
                                            => docs[k].state = "missing" }
          /\ ServerStart(StoriesHolds(present, mt))

\* The document f of the watched directory is rewritten as doc: its mtime is
\* the time of the write, later than the mtimes of the documents there.
ModifyDoc(f, doc) ==
    /\ proc = "running"
    /\ dir_mtime["stories"][f] # NoFile
    /\ story_docs[KeyOfFile(f)] # doc
    /\ NewestMtime(dir_mtime["stories"]) + 1 \in DocMtimes
    /\ dir_mtime' = [dir_mtime EXCEPT !["stories"][f] = NewestMtime(dir_mtime["stories"]) + 1]
    /\ story_docs' = [story_docs EXCEPT ![KeyOfFile(f)] = doc]
    /\ UNCHANGED <<lifecycleVars, wpc, recipients, pending, pass_sends, pass_resolved,
                   yaml_mtime, story_dir, last_modified, last_story_modified,
                   raw_status, normalized, yaml_source, parse_pc, snapshot, wire,
                   localVars, launchVars>>

\* The document f arrives in the watched directory holding doc, with the
\* mtime mt: written now, or moved or copied in with the mtime it had.
AddDoc(f, doc, mt) ==
    /\ proc = "running"
    /\ dir_mtime["stories"][f] = NoFile
    /\ dir_mtime' = [dir_mtime EXCEPT !["stories"][f] = mt]
    /\ story_docs' = [story_docs EXCEPT ![KeyOfFile(f)] = doc]
    /\ UNCHANGED <<lifecycleVars, wpc, recipients, pending, pass_sends, pass_resolved,
                   yaml_mtime, story_dir, last_modified, last_story_modified,
                   raw_status, normalized, yaml_source, parse_pc, snapshot, wire,
                   localVars, launchVars>>

\* The document f of the watched directory is removed.
RemoveDoc(f) ==
    /\ proc = "running"
    /\ dir_mtime["stories"][f] # NoFile
    /\ dir_mtime' = [dir_mtime EXCEPT !["stories"][f] = NoFile]
    /\ story_docs' = [story_docs EXCEPT ![KeyOfFile(f)] = [state |-> "missing"]]
    /\ UNCHANGED <<lifecycleVars, wpc, recipients, pending, pass_sends, pass_resolved,
                   yaml_mtime, story_dir, last_modified, last_story_modified,
                   raw_status, normalized, yaml_source, parse_pc, snapshot, wire,
                   localVars, launchVars>>

DocsNext ==
    \/ \E v \in DocsViewers : Join(v)
    \/ \E v \in DocsViewers : SendDone(v)
    \/ \E v \in DocsViewers, m \in {"refresh", "other"} : Message(v, m)
    \/ \E v \in DocsViewers : Close(v)
    \/ \E v \in DocsViewers : HandlerClosed(v)
    \/ Tick
    \/ \E t \in DocsViewers : TimerFire(t)
    \/ \E f \in DocFiles, doc \in DocContents : ModifyDoc(f, doc)
    \/ \E f \in DocFiles, doc \in DocContents, mt \in DocMtimes : AddDoc(f, doc, mt)
    \/ \E f \in DocFiles : RemoveDoc(f)
    \/ WatcherSample
    \/ \E v \in DocsViewers : BroadcastSend(v)
    \/ WatcherGatherDone

DocsSpec == DocsInit /\ [][DocsNext]_vars

\* normalize_status on every input.
NormInit ==
    /\ raw_status \in StatusInputs
    /\ normalized = << >>
    /\ yaml_source = [kind |-> "empty"]
    /\ story_docs = NoDocs
    /\ parse_pc = "input"
    /\ snapshot = [epics |-> << >>]
    /\ wire = NoPayload
    /\ ServerInit

NormNext == Normalize

NormSpec == NormInit /\ [][NormNext]_vars

\* parse_sprint_status on every input.
ParseInit ==
    /\ raw_status = << >>
    /\ normalized = << >>
    /\ \E inp \in ParseInputs :
           /\ yaml_source = inp.source
           /\ story_docs = inp.docs
    /\ parse_pc = "input"
    /\ snapshot = [epics |-> << >>]
    /\ wire = NoPayload
    /\ ServerInit

ParseNext ==
    \/ Resolve
    \/ \E site \in Sites : BuildPayload(site)

ParseSpec == ParseInit /\ [][ParseNext]_vars

\* The launch: from the command line to the server, on a source that exists
\* or not, with or without --port, and the server from there on.  The
\* watcher runs once its task is created, a viewer connects once the server's
\* socket listens.
\* The viewers that connect while the server is launched.
LaunchViewers == {1}

LaunchSources == { ServedSource } \cup { inp.source : inp \in BrokenInputs }

LaunchInit ==
    /\ raw_status = << >>
    /\ normalized = << >>
    /\ yaml_source \in LaunchSources
    /\ story_docs = NoDocs
    /\ parse_pc = "input"
    /\ snapshot = [epics |-> << >>]
    /\ wire = NoPayload
    /\ proc = "running"
    /\ exit_code = -1
    /\ connected_clients = {}
    /\ shutdown_task = NoTask
    /\ timer = [v \in Viewers |-> [state |-> "none", left |-> 0]]
    /\ hpc = [v \in Viewers |-> "absent"]
    /\ conn = [v \in Viewers |-> "open"]
    /\ failed = [v \in Viewers |-> "no"]
    /\ wpc = "sleep"
    /\ recipients = {}
    /\ pending = {}
    /\ pass_sends = [v \in Viewers |-> 0]
    /\ pass_resolved = 0
    /\ yaml_mtime = 0
    /\ dir_mtime = OneDocEach([d \in AllDirs |-> 0])
    /\ story_dir = ""
    /\ last_modified = 0
    /\ last_story_modified = 0
    /\ message = [v \in Viewers |-> "none"]
    /\ data = [v \in Viewers |-> NoData]
    /\ lpc = "args"
    /\ yaml_exists \in BOOLEAN
    /\ port = 0
    /\ stdout = << >>
    /\ listened = << >>
    /\ watcher_task = "none"
    /\ watcher_error = FALSE

\* The source can be written when it exists.
LaunchTouchYaml == yaml_exists /\ TouchYaml

\* Line 855: the watcher runs once its task is created.
LaunchWatcherSample == watcher_task = "created" /\ WatcherSample

\* Lines 858-863: a viewer connects to the server's socket.
LaunchJoin(v) == Listening /\ Join(v)

LaunchNext ==
    \/ \E args_port \in ArgPorts, free \in EphemeralPorts : SelectPort(args_port, free)
    \/ MainStart
    \/ BindOk
    \/ BindFail
    \/ Announce
    \/ LaunchTouchYaml
    \/ TouchStory
    \/ LaunchWatcherSample
    \/ \E v \in LaunchViewers : BroadcastSend(v)
    \/ WatcherGatherDone
    \/ \E v \in LaunchViewers : LaunchJoin(v)
    \/ \E v \in LaunchViewers : SendDone(v)
    \/ \E v \in LaunchViewers, m \in {"refresh", "other"} : Message(v, m)
    \/ \E v \in LaunchViewers : Close(v)
    \/ \E v \in LaunchViewers : HandlerClosed(v)
    \/ Tick
    \/ \E t \in LaunchViewers : TimerFire(t)

LaunchSpec == LaunchInit /\ [][LaunchNext]_vars

(***************************************************************************)
(* Properties                                                              *)
(***************************************************************************)

\* The gather of the current pass has run all its sends and not yet returned.
GatherComplete == wpc = "gather" /\ pending = {}

\* C1: when the sends of one detected change have run, the Snapshot has been
\* resolved once and every viewer that was connected when the pass built its
\* list of sends has been sent exactly one payload, whether or not the send to
\* another viewer raised; no other viewer has been sent one.
C1_FanOut ==
    GatherComplete =>
        /\ pass_resolved = 1
        /\ \A v \in Viewers : pass_sends[v] = IF v \in recipients THEN 1 ELSE 0

\* A pass to two viewers has ended with one send raised and one delivered.
C1_Witness ==
    /\ GatherComplete
    /\ Cardinality(recipients) >= 2
    /\ \E v \in recipients : failed[v] # "no"
    /\ \E v \in recipients : failed[v] = "no"

\* C2: a viewer a send to which has raised, in the broadcast or in its own
\* handler, leaves the connected set, and a pass that starts once it has left
\* does not send to it.
C2_FailedViewerDropped ==
    /\ \A v \in Viewers : (failed[v] # "no") ~> (v \notin connected_clients)
    /\ [][\A v \in Viewers :
              (failed[v] # "no" /\ v \notin connected_clients /\ wpc = "sleep" /\ wpc' = "gather")
                  => v \notin recipients']_vars

\* A later pass sends to the other viewer and not to the one a broadcast
\* send to which had raised.
C2_Witness ==
    \E v \in Viewers :
        /\ failed[v] = "broadcast"
        /\ v \notin connected_clients
        /\ wpc = "gather"
        /\ recipients # {}
        /\ v \notin recipients

\* C3: whenever no viewer is connected, the set stays empty only until the
\* process exits with code 0, the state right after startup included.
C3_IdleTerminates ==
    [](  (proc = "running" /\ connected_clients = {})
      => <>((proc = "exited" /\ exit_code = 0) \/ connected_clients # {}))

\* C4: the process has not exited while a viewer is connected, and no
\* countdown is left pending once a viewer has joined, whether its sleep was
\* still running or had already elapsed.
C4_NoExitWhileViewers ==
    /\ proc = "exited" => connected_clients = {}
    /\ \A t \in Viewers : timer[t].state = "sleeping" => connected_clients = {}

\* A join has cancelled a countdown whose sleep had elapsed, before it could exit.
C4_Witness ==
    /\ proc = "running"
    /\ connected_clients # {}
    /\ \E t \in Viewers : timer[t].state = "cancelled" /\ timer[t].left = 0

\* The step is the leave of viewer v.
IsLeave(v) == v \in connected_clients /\ v \notin connected_clients'

\* The step creates the shutdown_timer task of viewer v's handler.
IsCountdownStart(v) == timer[v].state = "none" /\ timer'[v].state = "sleeping"

\* C5: a step starts a countdown exactly if it is a leave that empties the
\* viewer set; the countdown starts with the full IdleSeconds; a leave that
\* is not the last one only removes the leaving viewer: the others stay
\* registered where they are and no countdown is touched.
C5_CountdownOnLastLeave ==
    [][/\ (\E v \in Viewers : IsCountdownStart(v))
              <=> (connected_clients' = {} /\ \E v \in Viewers : IsLeave(v))
       /\ \A v \in Viewers :
              /\ IsCountdownStart(v) => timer'[v].left = IdleSeconds /\ IsLeave(v)
              /\ (IsLeave(v) /\ connected_clients' # {}) =>
                     /\ connected_clients' = connected_clients \ {v}
                     /\ \A u \in Viewers \ {v} : hpc'[u] = hpc[u] /\ conn'[u] = conn[u]
                     /\ timer' = timer
                     /\ shutdown_task' = shutdown_task]_vars

\* A second countdown starts in full after a first one, partly or wholly
\* elapsed, was cancelled.
C5_Witness ==
    \E a, b \in Viewers :
        /\ timer[a].state = "cancelled"
        /\ timer[a].left < IdleSeconds
        /\ timer[b].state = "sleeping"
        /\ timer[b].left = IdleSeconds

\* The stories of a snapshot, over all its epics.
SnapshotStories(snap) ==
    UNION { { snap.epics[i].stories[j] : j \in 1..Len(snap.epics[i].stories) } :
              i \in 1..Len(snap.epics) }

SnapshotStoryKeys(snap) == { s.key : s \in SnapshotStories(snap) }

\* The keys of the mapping, and the index status of a key.
MappingKeys == { yaml_source.dev_status[i].key : i \in 1..Len(yaml_source.dev_status) }

IndexStatus(key) ==
    LET i == CHOOSE j \in 1..Len(yaml_source.dev_status) :
                 yaml_source.dev_status[j].key = key
    IN  yaml_source.dev_status[i].status

Resolved == parse_pc = "resolved" /\ yaml_source.kind = "ok"

\* The document declares a status within the scanned leading lines.
DocDeclaresStatus(doc) ==
    /\ doc.state = "file"
    /\ \E i \in 1..Len(doc.lines) : i <= ScanLines /\ StatusLineMatch(doc.lines[i]) # None

\* The raw status the document declares: what follows "Status:" on the first
\* such line.
DocRawStatus(doc) ==
    LET i == CHOOSE j \in 1..Len(doc.lines) :
                 /\ StatusLineMatch(doc.lines[j]) # None
                 /\ \A k \in 1..(j - 1) : StatusLineMatch(doc.lines[k]) = None
    IN  StatusLineMatch(doc.lines[i])

MismatchFields == {"file_status", "yaml_status", "status_mismatch"}

\* C6: an entry carries status_mismatch = true, file_status and yaml_status
\* exactly if its document declares a status A and normalize(A) differs from
\* normalize(B) for its index status B; otherwise it carries none of the three.
C6_MismatchIffNormalizedDiffer ==
    Resolved =>
        \A s \in SnapshotStories(snapshot) :
            IF /\ DocDeclaresStatus(story_docs[s.key])
               /\ normalize_status(DocRawStatus(story_docs[s.key]))
                      # normalize_status(IndexStatus(s.key))
            THEN /\ MismatchFields \subseteq DOMAIN s
                 /\ s.status_mismatch = TRUE
                 /\ "status" \in DOMAIN s
            ELSE /\ MismatchFields \cap DOMAIN s = {}
                 /\ "status" \in DOMAIN s

\* C7: the resolved status is the normalized document status when the
\* document declares one, and the normalized index status otherwise.
C7_ResolvedStatus ==
    Resolved =>
        \A s \in SnapshotStories(snapshot) :
            s.status = IF DocDeclaresStatus(story_docs[s.key])
                       THEN normalize_status(DocRawStatus(story_docs[s.key]))
                       ELSE normalize_status(IndexStatus(s.key))

\* C8: normalizing a normalized status changes nothing.
C8_Idempotent ==
    Len(normalized) = 2 => normalized[2] = normalized[1]

\* A key yields a numeric pair when it holds a number: the item-number of a
\* key with one number is taken as 0 (line 695).
YieldsPair(key) == DigitRuns(key) # << >>

\* The numeric pair of an item key: its first two numbers, the second taken
\* as 0 when the key has one number only.
NumericPair(key) ==
    LET numbers == DigitRuns(key)
    IN  <<ToInt(numbers[1]), IF Len(numbers) >= 2 THEN ToInt(numbers[2]) ELSE 0>>

PairLeq(p, q) == p[1] < q[1] \/ (p[1] = q[1] /\ p[2] <= q[2])

\* C9: in every group, the numeric pair of an item is at most that of the
\* item after it.
C9_GroupsSorted ==
    Resolved =>
        \A i \in 1..Len(snapshot.epics) :
            LET stories == snapshot.epics[i].stories
            IN  \A j \in 1..(Len(stories) - 1) :
                    YieldsPair(stories[j].key) /\ YieldsPair(stories[j + 1].key) =>
                        PairLeq(NumericPair(stories[j].key),
                                NumericPair(stories[j + 1].key))

\* The mapping lists 1-10-c before 1-2-b, and the snapshot has both.
C9_Witness ==
    /\ Resolved
    /\ \E i, j \in 1..Len(yaml_source.dev_status) :
           /\ i < j
           /\ yaml_source.dev_status[i].key = <<"1","-","1","0","-","c">>
           /\ yaml_source.dev_status[j].key = <<"1","-","2","-","b">>
    /\ {<<"1","-","1","0","-","c">>, <<"1","-","2","-","b">>} \subseteq SnapshotStoryKeys(snapshot)

\* An item key: at least two dash-separated tokens, the first a number, and
\* not a retrospective entry.
IsItemKey(key) ==
    /\ Len(SplitOn(key, "-")) >= 2
    /\ IsDigits(SplitOn(key, "-")[1])
    /\ ~Contains(key, <<"r","e","t","r","o","s","p","e","c","t","i","v","e">>)

\* C10, as stated: every item of the mapping and every item that has a
\* document is an item of the snapshot.
C10_NoItemOmitted ==
    Resolved =>
        \A k \in KeyUniverse :
            (IsItemKey(k) /\ (k \in MappingKeys \/ story_docs[k].state # "missing"))
                => k \in SnapshotStoryKeys(snapshot)

\* C10, as the code has it: the items of the snapshot are the items of the mapping, each
\* once; an item that has a document and no entry in the mapping is not one.
C10_MappingItemsOnly ==
    Resolved =>
        /\ \A k \in KeyUniverse :
               (IsItemKey(k) /\ k \in MappingKeys) <=> k \in SnapshotStoryKeys(snapshot)
        /\ \A i \in 1..Len(snapshot.epics) :
               \A j, l \in 1..Len(snapshot.epics[i].stories) :
                   snapshot.epics[i].stories[j].key = snapshot.epics[i].stories[l].key
                       => j = l

\* A document exists for an item the mapping does not list, next to two items
\* it lists.
C10_Witness ==
    /\ Resolved
    /\ \E k \in KeyUniverse : IsItemKey(k) /\ k \notin MappingKeys
                              /\ story_docs[k].state = "file"
    /\ Cardinality(SnapshotStoryKeys(snapshot)) >= 2

\* The source does not parse into a mapping that has a development_status
\* mapping.
UnusableSource ==
    yaml_source.kind \in {"error", "toplevel_not_mapping", "dev_status_not_mapping"}

\* C11: parse_sprint_status raises nothing, and on a source that cannot be
\* parsed into a usable mapping it returns the error string with no groups.
C11_NeverRaises ==
    parse_pc = "resolved" =>
        /\ "raises" \notin DOMAIN snapshot
        /\ UnusableSource => ("error" \in DOMAIN snapshot /\ snapshot.epics = << >>)

\* The keys of a payload: its own, those of its groups and those of their items.
PayloadKeys(payload) ==
    DOMAIN payload
    \cup UNION { DOMAIN payload.epics[i] : i \in 1..Len(payload.epics) }
    \cup UNION { DOMAIN s : s \in SnapshotStories(payload) }

\* C12: no key of a payload built on join, on refresh or for a broadcast
\* starts with "_".
C12_NoInternalField ==
    wire # NoPayload =>
        \A k \in PayloadKeys(wire.payload) : ~StartsWith(FieldName[k], <<"_">>)

\* A payload was built from a snapshot that carries _story_dir and has items.
C12_Witness ==
    /\ wire # NoPayload
    /\ "_story_dir" \in DOMAIN snapshot
    /\ SnapshotStories(snapshot) # {}
    /\ wire.payload.epics = snapshot.epics

\* The step is the join of viewer v.
IsJoin(v) == hpc[v] = "absent" /\ hpc'[v] # "absent"

IsRefresh(v) == hpc[v] = "recv" /\ hpc'[v] = "send_refresh"

\* What a message must leave alone: the viewer set, the handlers of the
\* other viewers, the broadcast in progress, the watcher and the countdown.
RefreshFrame(v) ==
    /\ UNCHANGED <<proc, exit_code, connected_clients, shutdown_task, timer, conn, failed>>
    /\ UNCHANGED watcherVars
    /\ \A u \in Viewers \ {v} :
           hpc'[u] = hpc[u] /\ data'[u] = data[u] /\ message'[u] = message[u]

Changed ==
    \/ yaml_mtime # last_modified
    \/ get_story_files_mtime(story_dir) # last_story_modified

\* The step is a pass of the watcher that signals.
IsPass ==
    /\ wpc = "sleep"
    /\ \/ last_modified' # last_modified
       \/ last_story_modified' # last_story_modified
       \/ story_dir' # story_dir
       \/ wpc' = "gather"

\* C15: a pass signals only when an mtime differs from the value recorded; it
\* records the values it sampled; and once it has run nothing is left to
\* signal, so that no further pass signals until a file is written again.
C15_OnePassPerModification ==
    [][IsPass =>
          /\ Changed
          /\ last_modified' = yaml_mtime
          /\ last_story_modified' = get_story_files_mtime(story_dir)
          /\ ~Changed']_vars

\* The group-number of an item key: its first dash-separated token, as a
\* number when it is made of decimal digits, and as it is written otherwise.
GroupNumber(key) ==
    LET first == SplitOn(key, "-")[1]
    IN  IF \A i \in 1..Len(first) : IsDigit(first[i]) THEN <<"num", ToInt(first)>>
        ELSE <<"str", first>>

\* The groups of the snapshot that hold an item with the key.
GroupsOf(key) ==
    { i \in 1..Len(snapshot.epics) :
        \E j \in 1..Len(snapshot.epics[i].stories) : snapshot.epics[i].stories[j].key = key }

\* C16: every item of the snapshot is in one group, and two items with the
\* same group-number are in the same group.
C16_OneGroupPerNumber ==
    Resolved =>
        /\ \A k \in SnapshotStoryKeys(snapshot) : Cardinality(GroupsOf(k)) = 1
        /\ \A k, l \in SnapshotStoryKeys(snapshot) :
               GroupNumber(k) = GroupNumber(l) => GroupsOf(k) = GroupsOf(l)

\* A socket of the process is in listening state.
OpenSockets ==
    { i \in 1..Len(listened) :
        /\ listened[i].op = "listen"
        /\ ~ \E j \in (i + 1)..Len(listened) :
                 listened[j] = Closed(listened[i].sock, listened[i].port) }

\* The server's socket has been opened.
ServerSocketOpened == \E i \in 1..Len(listened) : listened[i].sock = "server"

\* A viewer is or was connected.
ViewerSeen == connected_clients # {} \/ \E v \in Viewers : hpc[v] # "absent"

\* main is past its check of the source path.
MainChecked == lpc \notin {"args", "main"}

\* C17, as stated: when the source path does not exist, the process prints
\* an error and exits with a non-zero code, the watcher task is never
\* started, no listening socket is ever opened and no viewer connects.
C17_ExitsBeforeAnySocket ==
    ~yaml_exists =>
        /\ watcher_task = "none"
        /\ listened = << >>
        /\ ~ViewerSeen
        /\ MainChecked =>
               /\ proc = "exited"
               /\ exit_code # 0
               /\ stdout = << [line |-> "Error: YAML file not found"] >>

\* C17, as the code has it: when the source path does not exist, the process
\* prints an error and exits with a non-zero code, the watcher task is never
\* started, the server's listening socket is never opened and no viewer
\* connects; the one listening socket there may have been is the socket of
\* find_free_port, closed before main starts.
C17_ExitsBeforeServerSocket ==
    ~yaml_exists =>
        /\ watcher_task = "none"
        /\ ~ServerSocketOpened
        /\ lpc # "args" => OpenSockets = {}
        /\ ~ViewerSeen
        /\ MainChecked =>
               /\ proc = "exited"
               /\ exit_code # 0
               /\ stdout = << [line |-> "Error: YAML file not found"] >>

\* The process has exited on a source path that does not exist, launched
\* without --port.
C17_Witness ==
    /\ ~yaml_exists
    /\ proc = "exited"
    /\ exit_code = 1
    /\ port \in EphemeralPorts
    /\ listened = find_free_port(port)

\* The lines PORT=<number> of the output.
PortLines == { i \in 1..Len(stdout) : stdout[i].line = "PORT=" }

\* The ready messages of the output.
ReadyMessages == { i \in 1..Len(stdout) : stdout[i].line = "Server ready" }

\* C18: the line PORT=<number> is printed at most once, and once when the
\* startup has succeeded; when it is printed the server's socket listens on
\* that port, and every ready message comes after it.
C18_PortLineOnce ==
    /\ Cardinality(PortLines) <= 1
    /\ lpc = "serving" => Cardinality(PortLines) = 1 /\ ReadyMessages # {}
    /\ \A i \in PortLines :
           /\ stdout[i].port = port
           /\ Listen("server", port) \in { listened[j] : j \in OpenSockets }
    /\ \A r \in ReadyMessages : \E i \in PortLines : i < r

\* The startup has succeeded on a port the system assigned, a viewer is
\* connected and the watcher has seen a change since.
C18_Witness ==
    /\ lpc = "serving"
    /\ port \in EphemeralPorts
    /\ PortLines # {}
    /\ connected_clients # {}
    /\ last_modified > 0

\* The ordered rules as C19 states them, on the cleaned string (lower-cased,
\* trimmed, trailing parenthetical stripped); the empty string, which has no
\* first token, is given what the code gives it.
RuleList(raw) ==
    LET s == CleanStatus(raw)
    IN  IF s \in ClosedStatuses THEN s
        ELSE IF s \in { <<"d","o","n","e">>, <<"c","o","m","p","l","e","t","e">>, <<"c","o","m","p","l","e","t","e","d">>, <<"f","i","n","i","s","h","e","d">> } THEN <<"d","o","n","e">>
        ELSE IF StartsWith(s, <<"r","e","a","d","y"," ","f","o","r"," ","r","e","v","i","e","w">>) \/ s = <<"r","e","a","d","y","-","f","o","r","-","r","e","v","i","e","w">>
             THEN <<"r","e","v","i","e","w">>
        ELSE IF \/ StartsWith(s, <<"i","n"," ","p","r","o","g","r","e","s","s">>)
                \/ StartsWith(s, <<"i","n","-","p","r","o","g","r","e","s","s">>)
                \/ StartsWith(s, <<"w","i","p">>)
             THEN <<"i","n","-","p","r","o","g","r","e","s","s">>
        ELSE IF \/ StartsWith(s, <<"r","e","a","d","y"," ","f","o","r"," ","d","e","v">>)
                \/ StartsWith(s, <<"r","e","a","d","y","-","f","o","r","-","d","e","v">>)
                \/ StartsWith(s, <<"r","e","a","d","y">>)
             THEN <<"r","e","a","d","y","-","f","o","r","-","d","e","v">>
        ELSE IF s \in { <<"d","r","a","f","t">>, <<"d","r","a","f","t","e","d">> } THEN <<"d","r","a","f","t","e","d">>
        ELSE IF s = << >> THEN <<"b","a","c","k","l","o","g">>
        ELSE ReplaceChar(FirstWord(s), "_", "-")

\* C19: normalize_status returns what the ordered rules give, on every input.
C19_AgreesWithRuleList ==
    Len(normalized) >= 1 => normalized[1] = RuleList(raw_status)

GroupOfRecord(key) ==
    IF IsRetrospective(key) THEN None
    ELSE IF IsEpicKey(key) THEN key
    ELSE IF IsStoryKey(key) THEN <<"e","p","i","c","-">> \o SplitOn(key, "-")[1]
    ELSE None

\* The position in the mapping of the first record of the group; 0 when the
\* mapping has none.
FirstSeen(group) ==
    LET at == { i \in 1..Len(yaml_source.dev_status) :
                  GroupOfRecord(yaml_source.dev_status[i].key) = group }
    IN  IF at = {} THEN 0 ELSE CHOOSE i \in at : \A j \in at : i <= j

\* C21: every group of the snapshot has a record in the mapping, and the
\* groups are in the order of their first records.
C21_GroupsInFirstSeenOrder ==
    Resolved =>
        /\ \A i \in 1..Len(snapshot.epics) : FirstSeen(snapshot.epics[i].key) > 0
        /\ \A i, j \in 1..Len(snapshot.epics) :
               i < j => FirstSeen(snapshot.epics[i].key) < FirstSeen(snapshot.epics[j].key)

\* The mapping lists 1-10-c, 01-2-b and 1-2-b: the first group is seen through
\* an item, its items are reordered by the sort, and a second group is seen
\* before the first group's last item.
C21_Witness ==
    /\ Resolved
    /\ [i \in 1..Len(yaml_source.dev_status) |-> yaml_source.dev_status[i].key]
           = << <<"1","-","1","0","-","c">>, <<"0","1","-","2","-","b">>, <<"1","-","2","-","b">> >>
    /\ Len(snapshot.epics) = 2
    /\ snapshot.epics[1].stories[1].key = <<"1","-","2","-","b">>

\* The records of the mapping that are the group's own entry.
GroupEntries(group) ==
    { i \in 1..Len(yaml_source.dev_status) :
        /\ yaml_source.dev_status[i].key = group
        /\ IsEpicKey(group)
        /\ ~IsRetrospective(group) }

\* C30: the status of a group is the status of its own entry in the mapping
\* when it has one, before or after its items, and in-progress otherwise.
C30_GroupStatusFromEntry ==
    Resolved =>
        \A i \in 1..Len(snapshot.epics) :
            LET group == snapshot.epics[i]
            IN  IF GroupEntries(group.key) # {}
                THEN \A e \in GroupEntries(group.key) :
                         group.status = yaml_source.dev_status[e].status
                ELSE group.status = <<"i","n","-","p","r","o","g","r","e","s","s">>

\* The countdowns that are pending: created and neither cancelled nor run to
\* their end.
PendingCountdowns == { t \in Viewers : timer[t].state = "sleeping" }

\* The step adds viewer v to the set.
IsAdded(v) == v \notin connected_clients /\ v \in connected_clients'

\* C26: at most one countdown is pending, only while no viewer is connected,
\* and it is the task the global names; a step that adds a viewer leaves no
\* countdown pending, and a step that creates a countdown is a leave that
\* empties the set.
C26_OneCountdownWhileEmpty ==
    /\ [](/\ Cardinality(PendingCountdowns) <= 1
          /\ PendingCountdowns # {} =>
                 connected_clients = {} /\ PendingCountdowns = {shutdown_task})
    /\ [][\A v \in Viewers :
              /\ IsAdded(v) =>
                     /\ \A t \in Viewers : timer'[t].state # "sleeping"
                     /\ shutdown_task' = NoTask
              /\ IsCountdownStart(v) =>
                     /\ IsLeave(v)
                     /\ connected_clients' = {}
                     /\ PendingCountdowns = {}]_vars

\* A countdown is pending after the last viewer left; another viewer had left
\* before it without starting one.
C26_Witness ==
    \E t, u \in Viewers :
        /\ t # u
        /\ timer[t].state = "sleeping"
        /\ shutdown_task = t
        /\ hpc[u] = "done"
        /\ timer[u].state = "none"

\* C23: the sends of a pass are created for the viewers connected at that
\* step, one each; while they run, joins and leaves change neither the
\* recipients nor what is left to send, no viewer is sent the broadcast twice
\* and none outside the recipients is sent it; the pass ends when every
\* recipient has been sent it once.
C23_PointInTimeRecipients ==
    [][/\ (wpc = "sleep" /\ wpc' = "gather") =>
              /\ recipients' = connected_clients
              /\ pending' = connected_clients
              /\ \A v \in Viewers : pass_sends'[v] = 0
       /\ (wpc = "gather" /\ wpc' = "gather") =>
              /\ recipients' = recipients
              /\ pending' \subseteq pending
              /\ connected_clients' # connected_clients =>
                     pending' = pending /\ pass_sends' = pass_sends
              /\ \A v \in Viewers :
                     /\ pass_sends'[v] <= 1
                     /\ v \notin recipients => pass_sends'[v] = 0
                     /\ v \in recipients \ pending' => pass_sends'[v] = 1
       /\ (wpc = "gather" /\ wpc' = "sleep") =>
              \A v \in recipients : pass_sends[v] = 1]_vars

\* The sends of a pass have all run; since they were created one recipient
\* has left and a viewer that is not a recipient has joined.
C23_Witness ==
    /\ GatherComplete
    /\ recipients # {}
    /\ \E v \in recipients : v \notin connected_clients
    /\ \E v \in connected_clients : v \notin recipients

\* The handlers that call parse_sprint_status in the step: a join (line 736)
\* or a refresh (line 744).
HandlerResolutions ==
    { v \in Viewers :
        \/ hpc[v] = "absent" /\ hpc'[v] = "send_initial"
        \/ hpc[v] = "recv" /\ hpc'[v] = "send_refresh" }

\* C22: a step runs at most one resolution, of the watcher or of one handler,
\* and the watcher runs none while the sends of its last pass are in flight;
\* a pass of the watcher resolves once, creates one send for each connected
\* viewer, and takes in every modification made since the sample before it:
\* once it has run nothing is left that makes a further pass signal.
C22_OnePassCoalesced ==
    [][/\ Cardinality(HandlerResolutions) + (IF IsPass THEN 1 ELSE 0) <= 1
       /\ wpc = "gather" => ~IsPass /\ pass_resolved' <= 1
       /\ IsPass =>
              /\ pass_resolved' <= 1
              /\ wpc' = "gather" => pending' = connected_clients
              /\ ~Changed']_vars


\* The step is a sampling pass of the watcher: in a state where the watcher
\* sleeps nothing else writes what it records, its directory or its position.
SampleStep ==
    /\ wpc = "sleep"
    /\ <<watcher_error, last_modified, last_story_modified, story_dir, wpc>>'
           # <<watcher_error, last_modified, last_story_modified, story_dir, wpc>>

\* parse_sprint_status would raise on the files as they are.
ParseRaises == "raises" \in DOMAIN parse_sprint_status(yaml_source, story_docs)

\* The next sampling pass would raise: os.path.getmtime at line 798, or
\* parse_sprint_status at line 810.
PassWouldRaise == ~yaml_exists \/ (Changed /\ ParseRaises)

\* C24: a sampling pass that raises (the source is missing, or the resolver
\* raises on what the source holds) prints the error and leaves the watcher
\* at its sleep, from where it samples again; the process keeps running and
\* no viewer is unregistered or closed by it.  At any time the watcher of a
\* running process is asleep or sending, never ended.
C24_PassErrorLoggedAndRetried ==
    /\ [](proc = "running" => wpc \in {"sleep", "gather"})
    /\ [][SampleStep /\ PassWouldRaise =>
             /\ watcher_error'
             /\ wpc' = "sleep"
             /\ proc' = "running"
             /\ connected_clients' = connected_clients
             /\ hpc' = hpc
             /\ conn' = conn]_vars

\* A pass has raised on a missing source while a viewer was connected; the
\* viewer is still registered, the source is back and modified, and the
\* watcher is about to sample it.
C24_Witness ==
    /\ watcher_error
    /\ proc = "running"
    /\ wpc = "sleep"
    /\ connected_clients # {}
    /\ yaml_exists
    /\ Changed

\* What the step's resolution pass resolves: the Snapshot of the files as
\* they are when the pass runs.
PassSnapshot == parse_sprint_status(yaml_source, story_docs)

\* The step is a sampling pass that finds a change and resolves.
ResolvingPass == SampleStep /\ yaml_exists /\ Changed /\ ~ParseRaises

\* A resolving pass leaves the watcher with the directory of its Snapshot, or
\* with the directory it had when the Snapshot carries none.
FollowsSnapshot ==
    ResolvingPass =>
        story_dir' = IF "_story_dir" \in DOMAIN PassSnapshot
                     THEN PassSnapshot["_story_dir"]
                     ELSE story_dir

\* The watcher samples the location the source declares, and the step writes
\* a document there.
DeclaredLocationWritten ==
    /\ yaml_source.kind = "ok"
    /\ yaml_source.story_location \in Dirs
    /\ story_dir = yaml_source.story_location
    /\ dir_mtime'[story_dir] # dir_mtime[story_dir]

\* C25: a resolving pass leaves the watcher with the directory its Snapshot
\* derived, the one it had when the Snapshot carries none; and once the
\* watcher samples the declared location, a document written there makes the
\* next pass signal.
C25_WatchedDirFollowsSnapshot ==
    [][/\ FollowsSnapshot
       /\ DeclaredLocationWritten => Changed']_vars

\* Lines 598-621 and 529: the directory the resolver reads the documents of
\* the source from.
ResolverDir == StoryDir(yaml_source.yaml_dir, yaml_source.story_location)

\* The watcher is asleep with nothing to signal, and the step writes the
\* document of item 1-1-a in the directory the resolver reads: a document
\* the resolver consults (line 663) when the source lists the item.
ConsultedDocWritten ==
    /\ yaml_exists
    /\ yaml_source.kind = "ok"
    /\ \E i \in DOMAIN yaml_source.dev_status : yaml_source.dev_status[i].key = <<"1","-","1","-","a">>
    /\ wpc = "sleep"
    /\ ~Changed
    /\ dir_mtime'[ResolverDir]["1-1-a.md"] # dir_mtime[ResolverDir]["1-1-a.md"]

\* C27: whatever the form of the source path, when the watcher has nothing
\* left to signal it samples the directory the resolver reads the documents
\* from, and a document written there makes its next pass signal.
C27_SamplesResolverDir ==
    [][ConsultedDocWritten => story_dir = ResolverDir /\ Changed']_vars

\* The step is a sampling pass that records the mtimes it sampled and then
\* raises in its resolution.
FailedPass == SampleStep /\ yaml_exists /\ Changed /\ ParseRaises

\* C29: a pass whose resolution raises after it has recorded the mtimes
\* leaves the change pending, so that a later pass signals it without a
\* further modification of the files.
C29_FailedPassKeepsChange ==
    [][FailedPass => Changed']_vars

\* The step changes the documents of the directory the resolver reads, and
\* with them the Snapshot the resolver returns, while a viewer is connected.
DocsChangeSnapshot ==
    /\ connected_clients # {}
    /\ story_docs' # story_docs
    /\ parse_sprint_status(yaml_source, story_docs')
           # parse_sprint_status(yaml_source, story_docs)

\* C28: a document modified, added or removed so that the resolved Snapshot
\* changes leaves the watcher with a change to signal, which its next pass
\* resolves and broadcasts to the connected viewers.
C28_DocChangeSignalled ==
    [][DocsChangeSnapshot => Changed']_vars
=============================================================================
